---- MODULE Spec2Model ----
(***************************************************************************)
(* Model of neverbounce_sdk/core.py: the APICore helpers (auth property,   *)
(* _make_request, _check_response, __enter__/__exit__) and the client      *)
(* operations account_info and verify of NeverBounceAPIClient.             *)
(*                                                                         *)
(* Python values are records tagged with their type in field t, so that    *)
(* None, strings, StaticTokenAuth objects and Session objects can be       *)
(* compared with one another.                                              *)
(***************************************************************************)
EXTENDS Integers, Sequences, FiniteSets, TLC

VARIABLES
    _auth,       \* APICore._auth: None or a StaticTokenAuth
    credential,  \* the value last given to the auth setter (None after del)
    session,     \* APICore.session: None or a Session object
    sessAuth,    \* sessAuth[i]: the auth attribute of Session object i
    closed,      \* ids of the Session objects whose close() has been called
    depth,       \* number of entered `with` scopes that have not exited yet
    call         \* the last operation: its inputs, what it raised or returned

vars == <<_auth, credential, session, sessAuth, closed, depth, call>>

----------------------------------------------------------------------------
(* Bounds of the model *)

MaxDepth == 3
MaxSessions == 3

----------------------------------------------------------------------------
(* Python values *)

None == [t |-> "NoneType", v |-> ""]
Str(s) == [t |-> "str", v |-> s]
StaticTokenAuth(token) == [t |-> "StaticTokenAuth", token |-> token]
Session(i) == [t |-> "Session", id |-> i]

\* bool(v): None and the empty string are false, any other object is true
Truthy(v) ==
    CASE v.t = "NoneType" -> FALSE
      [] v.t = "str" -> v.v # ""
      [] OTHER -> TRUE

\* int(b) of a boolean
int(b) == IF b THEN 1 ELSE 0

\* dict.get(k): None when the key is absent
Get(d, k) == IF k \in DOMAIN d THEN d[k] ELSE None

\* a keyword argument, or the default of the signature when it is not passed
KwGet(kw, k, default) == IF k \in DOMAIN kw THEN kw[k] ELSE default

\* dict.update({k: val})
Update(d, k, val) == [x \in DOMAIN d \cup {k} |-> IF x = k THEN val ELSE d[x]]

EmptyDict == [k \in {} |-> None]

----------------------------------------------------------------------------
(* Inputs *)

Credentials == {None, Str(""), Str("key"), StaticTokenAuth(Str("tok"))}
Overrides == {None, StaticTokenAuth(Str("percall"))}
SessionAuths == {None, StaticTokenAuth(Str("sess"))}
Emails == {Str("test@example.com"), Str("")}
ExcInfos == {"none", "raised"}

Statuses == {"success", "auth_failure", "throttle_triggered", "bad_referrer",
             "invalid_credentials", "general_failure", "quota_exceeded"}

\* an optional field is a sequence of length 0 (absent) or 1 (present)
Opt(S) == {<<>>} \cup {<<x>> : x \in S}

MkPayload(so, mo, eo) ==
    [k \in (IF so = <<>> THEN {} ELSE {"status"})
           \cup (IF mo = <<>> THEN {} ELSE {"message"})
           \cup (IF eo = <<>> THEN {} ELSE {"execution_time"}) |->
        CASE k = "status" -> so[1]
          [] k = "message" -> mo[1]
          [] OTHER -> eo[1]]

Payloads ==
    {MkPayload(so, mo, eo) :
        so \in Opt({Str(s) : s \in Statuses}),
        mo \in Opt({Str("server message")}),
        eo \in Opt({Str("0.25")})}

\* a response: HTTP status ok or not, body parses as JSON or not, the payload
Responses ==
    {[ok |-> TRUE, parses |-> TRUE, data |-> d] : d \in Payloads}
    \cup {[ok |-> TRUE, parses |-> FALSE, data |-> EmptyDict],
          [ok |-> FALSE, parses |-> TRUE, data |-> EmptyDict]}

\* the responses given to account_info and verify: every path of
\* _check_response, the optional fields all present or all absent
ClientResponses ==
    {r \in Responses :
        /\ ("message" \in DOMAIN r.data) = ("execution_time" \in DOMAIN r.data)
        /\ Get(r.data, "status") \in
               {None, Str("success"), Str("auth_failure"), Str("quota_exceeded")}}

VerifyKwargs ==
    {[k \in (IF a = <<>> THEN {} ELSE {"address_info"})
            \cup (IF c = <<>> THEN {} ELSE {"credits_info"})
            \cup (IF m = <<>> THEN {} ELSE {"max_execution_time"}) |->
        CASE k = "address_info" -> a[1]
          [] k = "credits_info" -> c[1]
          [] OTHER -> m[1]] :
        a \in Opt(BOOLEAN), c \in Opt(BOOLEAN), m \in Opt({10})}

----------------------------------------------------------------------------
(* APICore.auth *)

\* auth.setter
AuthSetter(val) ==
    IF val = None THEN None
    ELSE IF val.t = "StaticTokenAuth" THEN val
    ELSE StaticTokenAuth(val)

\* faulty variant: the session's auth wins over the client's own
AuthGetter_SessionFirst(sess, own) ==
    IF Truthy(sess) THEN sessAuth[sess.id] ELSE own

\* auth property: falls back to session.auth
AuthGetter(sess, own) ==
    IF Truthy(sess) /\ ~Truthy(own) THEN sessAuth[sess.id] ELSE own

SelfAuth == AuthGetter(session, _auth)

----------------------------------------------------------------------------
(* Outcomes of an operation: what it raised (exc, args) or returned (ret) *)

Raise(kind, args) == [exc |-> kind, args |-> args, ret |-> None]
Return(val) == [exc |-> "none", args |-> <<>>, ret |-> val]

----------------------------------------------------------------------------
(* APICore._make_request *)

\* the request handed to session.request (via = the session) or to
\* requests.request (via = None)
_make_request(method, url, kwargs, sess, selfAuth) ==
    [method |-> method,
     url |-> url,
     kwargs |-> IF ~Truthy(Get(kwargs, "auth"))
                THEN Update(kwargs, "auth", selfAuth)
                ELSE kwargs,
     via |-> IF Truthy(sess) THEN sess ELSE None]

----------------------------------------------------------------------------
(* exceptions._status_to_exception and APICore._check_response *)

LocalAuthMessage == Str("NeverBounceAPIClient.auth is not set")

_status_to_exception(status) ==
    CASE status = Str("auth_failure") -> "AuthFailure"
      [] status = Str("throttle_triggered") -> "ThrottleError"
      [] status = Str("bad_referrer") -> "BadReferrer"
      [] status = Str("invalid_credentials") -> "InvalidCredentials"
      [] OTHER -> "GeneralException"

\* faulty variant: rewrites the message of every auth_failure
ErrorMessage_AlwaysLocal(data, selfAuth) ==
    IF data["status"] = Str("auth_failure")
    THEN LocalAuthMessage
    ELSE Get(data, "message")

\* message = data.get('message'), rewritten when the status is
\* auth_failure and self.auth is not set
ErrorMessage(data, selfAuth) ==
    IF data["status"] = Str("auth_failure") /\ ~Truthy(selfAuth)
    THEN LocalAuthMessage
    ELSE Get(data, "message")

\* faulty variant: the execution time of the payload is dropped
ErrorExecutionTime_Dropped(data) == None

\* execution_time = data.get('execution_time')
ErrorExecutionTime(data) == Get(data, "execution_time")

\* raise exc(message, execution_time)
RaiseApiError(data, selfAuth) ==
    Raise(_status_to_exception(data["status"]),
          <<ErrorMessage(data, selfAuth), ErrorExecutionTime(data)>>)

\* faulty variant: the exception carries the message field only
RaiseMissingStatus_MessageOnly(resp) ==
    Raise("NeverBounceAPIException", <<Get(resp.data, "message")>>)

\* data['status'] raised KeyError: raise NeverBounceAPIException(resp.json())
RaiseMissingStatus(resp) == Raise("NeverBounceAPIException", <<resp.data>>)

\* faulty variant: returns the parsed payload instead of the response
ReturnSuccess_Payload(resp) == Return(resp.data)

\* api_status == 'success': return resp
ReturnSuccess(resp) == Return(resp)

_check_response(resp, selfAuth) ==
    IF ~resp.ok THEN Raise("HTTPError", <<>>)
    ELSE IF ~resp.parses THEN Raise("ValueError", <<>>)
    ELSE IF "status" \notin DOMAIN resp.data THEN RaiseMissingStatus(resp)
    ELSE IF resp.data["status"] = Str("success") THEN ReturnSuccess(resp)
    ELSE RaiseApiError(resp.data, selfAuth)

----------------------------------------------------------------------------
(* APICore.__enter__ and APICore.__exit__ *)

\* faulty variant: a new session replaces the one already held
Faulty_enter_AlwaysNew(sess, n) ==
    [session |-> Session(n + 1), new |-> <<None>>, ret |-> "self"]

\* n Session objects exist so far; new lists the auth of each object created
__enter__(sess, n) ==
    IF sess = None
    THEN [session |-> Session(n + 1), new |-> <<None>>, ret |-> "self"]
    ELSE [session |-> sess, new |-> <<>>, ret |-> "self"]

\* faulty variant: the session is kept when the scope body raised
Faulty_exit_KeptOnError(sess, cl, excInfo) ==
    IF sess = None
    THEN [exc |-> "AttributeError", session |-> sess, closed |-> cl]
    ELSE IF excInfo = "raised"
    THEN [exc |-> "none", session |-> sess, closed |-> cl]
    ELSE [exc |-> "none", session |-> None, closed |-> cl \cup {sess.id}]

\* __exit__(*args) ignores the exception info it is given
__exit__(sess, cl, excInfo) ==
    IF sess = None
    THEN [exc |-> "AttributeError", session |-> sess, closed |-> cl]
    ELSE [exc |-> "none", session |-> None, closed |-> cl \cup {sess.id}]

----------------------------------------------------------------------------
(* NeverBounceAPIClient.account_info and NeverBounceAPIClient.verify *)

DefaultMaxExecutionTime == 30

urlfor(a, b) == <<a, b>>

\* faulty variant: the two flags are swapped
VerifyParams_Swapped(email, kw) ==
    [email |-> email,
     address_info |-> int(KwGet(kw, "credits_info", FALSE)),
     credits_info |-> int(KwGet(kw, "address_info", FALSE)),
     max_execution_time |->
         KwGet(kw, "max_execution_time", DefaultMaxExecutionTime)]

VerifyParams(email, kw) ==
    [email |-> email,
     address_info |-> int(KwGet(kw, "address_info", FALSE)),
     credits_info |-> int(KwGet(kw, "credits_info", FALSE)),
     max_execution_time |->
         KwGet(kw, "max_execution_time", DefaultMaxExecutionTime)]

\* r is the server's response to the request
verify(email, kw, sess, selfAuth, r) ==
    LET endpoint == urlfor("single", "check")
        params == VerifyParams(email, kw)
        req == _make_request("GET", endpoint, [params |-> params], sess, selfAuth)
        chk == _check_response(r, selfAuth)
    IN [requests |-> <<req>>,
        out |-> IF chk.exc # "none" THEN chk ELSE Return(r.data)]

account_info(sess, selfAuth, r) ==
    LET endpoint == urlfor("account", "info")
        req == _make_request("GET", endpoint, EmptyDict, sess, selfAuth)
        chk == _check_response(r, selfAuth)
    IN [requests |-> <<req>>,
        out |-> IF chk.exc # "none" THEN chk ELSE Return(r.data)]

----------------------------------------------------------------------------
(* The state machine *)

\* APICore.__init__(auth, session): a client built with or without a
\* caller-supplied session
Init ==
    /\ credential \in Credentials
    /\ _auth = AuthSetter(credential)
    /\ \/ session = None /\ sessAuth = <<>>
       \/ \E a \in SessionAuths : session = Session(1) /\ sessAuth = <<a>>
    /\ closed = {}
    /\ depth = 0
    /\ call = [op |-> "__init__"]

SetAuth(val) ==
    /\ _auth' = AuthSetter(val)
    /\ credential' = val
    /\ call' = [op |-> "auth.setter", val |-> val]
    /\ UNCHANGED <<session, sessAuth, closed, depth>>

DelAuth ==
    /\ _auth' = None
    /\ credential' = None
    /\ call' = [op |-> "auth.deleter"]
    /\ UNCHANGED <<session, sessAuth, closed, depth>>

Enter ==
    LET res == __enter__(session, Len(sessAuth)) IN
    /\ depth < MaxDepth
    /\ Len(sessAuth) + Len(res.new) <= MaxSessions
    /\ session' = res.session
    /\ sessAuth' = sessAuth \o res.new
    /\ depth' = depth + 1
    /\ call' = [op |-> "__enter__", held |-> session, before |-> Len(sessAuth),
                ret |-> res.ret]
    /\ UNCHANGED <<_auth, credential, closed>>

Exit(excInfo) ==
    LET res == __exit__(session, closed, excInfo) IN
    /\ depth > 0
    /\ session' = res.session
    /\ closed' = res.closed
    /\ depth' = depth - 1
    /\ call' = [op |-> "__exit__", held |-> session, excInfo |-> excInfo,
                exc |-> res.exc]
    /\ UNCHANGED <<_auth, credential, sessAuth>>

\* a direct call of _make_request with or without a per-call auth; the
\* server answers with r
MakeRequest(override, r) ==
    LET kwargs == IF override = None THEN EmptyDict ELSE [auth |-> override]
        req == _make_request("GET", urlfor("account", "info"), kwargs,
                           session, SelfAuth)
    IN /\ call' = [op |-> "_make_request", override |-> override,
                   credential |-> credential, own |-> _auth,
                   session |-> session, request |-> req, ret |-> r]
       /\ UNCHANGED <<_auth, credential, session, sessAuth, closed, depth>>

\* _check_response on the response the preceding _make_request returned
CheckResponse ==
    /\ call.op = "_make_request"
    /\ LET out == _check_response(call.ret, SelfAuth) IN
       call' = [op |-> "_check_response", resp |-> call.ret,
                request |-> call.request, selfAuth |-> SelfAuth,
                own |-> _auth, session |-> session,
                exc |-> out.exc, args |-> out.args, ret |-> out.ret]
    /\ UNCHANGED <<_auth, credential, session, sessAuth, closed, depth>>

AccountInfo(r) ==
    LET res == account_info(session, SelfAuth, r) IN
    /\ call' = [op |-> "account_info", requests |-> res.requests, resp |-> r,
                selfAuth |-> SelfAuth,
                exc |-> res.out.exc, args |-> res.out.args, ret |-> res.out.ret]
    /\ UNCHANGED <<_auth, credential, session, sessAuth, closed, depth>>

Verify(email, kw, r) ==
    LET res == verify(email, kw, session, SelfAuth, r) IN
    /\ call' = [op |-> "verify", email |-> email, kw |-> kw,
                requests |-> res.requests, resp |-> r, selfAuth |-> SelfAuth,
                session |-> session,
                exc |-> res.out.exc, args |-> res.out.args, ret |-> res.out.ret]
    /\ UNCHANGED <<_auth, credential, session, sessAuth, closed, depth>>

\* the operations of APICore
Next ==
    \/ \E val \in Credentials : SetAuth(val)
    \/ DelAuth
    \/ Enter
    \/ \E excInfo \in ExcInfos : Exit(excInfo)
    \/ \E override \in Overrides, r \in Responses : MakeRequest(override, r)
    \/ CheckResponse

\* the operations of NeverBounceAPIClient, on a client in any state that
\* __init__ and the auth setter can leave it in
NextClient ==
    \/ \E val \in Credentials : SetAuth(val)
    \/ DelAuth
    \/ \E r \in ClientResponses : AccountInfo(r)
    \/ \E email \in Emails, kw \in VerifyKwargs, r \in ClientResponses :
           Verify(email, kw, r)

Spec == Init /\ [][Next]_vars
SpecClient == Init /\ [][NextClient]_vars

----------------------------------------------------------------------------
(* Properties *)

\* Session objects that exist and have not been closed
OpenSessions == {i \in 1..Len(sessAuth) : i \notin closed}

\* the response of the last _check_response call passed the transport and
\* parse steps
Checked == call.op = "_check_response" /\ call.resp.ok /\ call.resp.parses

RecognizedErrors ==
    {"auth_failure", "throttle_triggered", "bad_referrer",
     "invalid_credentials", "general_failure"}

\* C1: after __exit__, whether the scope body finished normally or raised,
\* the session that was held has been closed and client.session is None.
C1_ExitClosesAndClears ==
    call.op = "__exit__" =>
        /\ session = None
        /\ call.held # None => call.held.id \in closed

C1_Witness ==
    /\ call.op = "__exit__"
    /\ call.excInfo = "raised"
    /\ call.held # None
    /\ call.held.id \in closed
    /\ session = None

\* C2: __enter__ on a client with no session creates exactly one new session
\* and stores it; on a client that holds a session it creates none and keeps
\* it; it returns the client; no session other than the one the client holds
\* is ever open.
C2_EnterCreatesAtMostOne ==
    /\ call.op = "__enter__" =>
        /\ call.ret = "self"
        /\ call.held = None =>
              /\ Len(sessAuth) = call.before + 1
              /\ session = Session(Len(sessAuth))
              /\ session.id \notin closed
        /\ call.held # None =>
              /\ Len(sessAuth) = call.before
              /\ session = call.held
    /\ OpenSessions \subseteq (IF session = None THEN {} ELSE {session.id})

C2_Witness ==
    /\ call.op = "__enter__"
    /\ call.held = None
    /\ call.before = 1
    /\ session = Session(2)
    /\ OpenSessions = {2}

\* the auth the three-tier precedence gives
Precedence(override, own, sess) ==
    IF override # None THEN override
    ELSE IF own # None THEN own
    ELSE IF sess # None THEN sessAuth[sess.id]
    ELSE None

\* C3 as stated: the auth attached by _make_request follows the precedence
\* (override, client's own, session's, none), and a client whose credential
\* is empty or unset attaches the session's auth if a session is present and
\* none otherwise.
C3_AuthPrecedence_EmptyOrUnset ==
    call.op = "_make_request" =>
        /\ call.request.kwargs["auth"] =
               Precedence(call.override, call.own, call.session)
        /\ (call.override = None /\ ~Truthy(call.credential)) =>
               call.request.kwargs["auth"] =
                   IF call.session # None
                   THEN sessAuth[call.session.id] ELSE None

\* C3 amended: as above for a client whose credential is unset (None); an
\* empty string is wrapped by the auth setter and counts as the client's own.
C3_AuthPrecedence_Unset ==
    call.op = "_make_request" =>
        /\ call.request.kwargs["auth"] =
               Precedence(call.override, call.own, call.session)
        /\ (call.override = None /\ call.credential = None) =>
               call.request.kwargs["auth"] =
                   IF call.session # None
                   THEN sessAuth[call.session.id] ELSE None

C3_Witness ==
    /\ call.op = "_make_request"
    /\ call.override = None
    /\ call.credential = None
    /\ call.session # None
    /\ call.request.kwargs["auth"] = StaticTokenAuth(Str("sess"))

\* C4: the API error raised by _check_response carries the fixed local
\* message exactly when the status is auth_failure and the request carried
\* no auth; otherwise it carries the server's message.
C4_LocalMessageIffRequestHadNoAuth ==
    (Checked /\ "status" \in DOMAIN call.resp.data
             /\ call.resp.data["status"] # Str("success")) =>
        call.args[1] =
            IF /\ call.resp.data["status"] = Str("auth_failure")
               /\ ~Truthy(call.request.kwargs["auth"])
            THEN LocalAuthMessage
            ELSE Get(call.resp.data, "message")

\* C5: a status that is neither "success" nor a recognized error status
\* raises the general-failure kind built from the payload's message and
\* execution_time; the lookup raises no KeyError.
C5_UnknownStatusIsGeneralFailure ==
    (Checked /\ "status" \in DOMAIN call.resp.data
             /\ call.resp.data["status"] \notin
                    {Str(s) : s \in RecognizedErrors \cup {"success"}}) =>
        /\ call.exc = "GeneralException"
        /\ call.args = <<Get(call.resp.data, "message"),
                         Get(call.resp.data, "execution_time")>>

C5_Witness ==
    /\ Checked
    /\ Get(call.resp.data, "status") = Str("quota_exceeded")
    /\ call.exc = "GeneralException"
    /\ call.args = <<Str("server message"), Str("0.25")>>

\* the error kind of each recognized status
MappedKind(status) ==
    CASE status = "auth_failure" -> "AuthFailure"
      [] status = "throttle_triggered" -> "ThrottleError"
      [] status = "bad_referrer" -> "BadReferrer"
      [] status = "invalid_credentials" -> "InvalidCredentials"
      [] status = "general_failure" -> "GeneralException"

\* C6 as stated: a recognized non-success status raises its mapped kind,
\* built from the payload's message and execution_time (None when absent).
C6_MappedKindFromPayload ==
    (Checked /\ "status" \in DOMAIN call.resp.data
             /\ call.resp.data["status"].v \in RecognizedErrors) =>
        /\ call.exc = MappedKind(call.resp.data["status"].v)
        /\ call.args = <<Get(call.resp.data, "message"),
                         Get(call.resp.data, "execution_time")>>

\* C6 amended: as above, except that for auth_failure on a client whose
\* auth property is unset the message is the fixed local one.
C6_MappedKindFromPayloadOrLocal ==
    (Checked /\ "status" \in DOMAIN call.resp.data
             /\ call.resp.data["status"].v \in RecognizedErrors) =>
        /\ call.exc = MappedKind(call.resp.data["status"].v)
        /\ call.args =
              <<IF /\ call.resp.data["status"] = Str("auth_failure")
                   /\ ~Truthy(call.selfAuth)
                THEN LocalAuthMessage
                ELSE Get(call.resp.data, "message"),
                Get(call.resp.data, "execution_time")>>

C6_Witness ==
    /\ Checked
    /\ Get(call.resp.data, "status") = Str("auth_failure")
    /\ Truthy(call.selfAuth)
    /\ call.exc = "AuthFailure"
    /\ call.args = <<Str("server message"), None>>

\* C7: a payload without a status field raises NeverBounceAPIException
\* carrying the whole payload, not a per-status error kind.
C7_MissingStatusCarriesPayload ==
    (Checked /\ "status" \notin DOMAIN call.resp.data) =>
        /\ call.exc = "NeverBounceAPIException"
        /\ call.args = <<call.resp.data>>

C7_Witness ==
    /\ Checked
    /\ DOMAIN call.resp.data = {"message", "execution_time"}
    /\ call.exc = "NeverBounceAPIException"
    /\ call.args = <<call.resp.data>>

\* C8: a payload with status "success" makes _check_response return the
\* response it was given, raise nothing, and leave auth and session as they
\* were.
C8_SuccessReturnsResponse ==
    (Checked /\ Get(call.resp.data, "status") = Str("success")) =>
        /\ call.exc = "none"
        /\ call.ret = call.resp
        /\ _auth = call.own
        /\ session = call.session

C8_Witness ==
    /\ Checked
    /\ Get(call.resp.data, "status") = Str("success")
    /\ call.ret = call.resp
    /\ call.session # None
    /\ call.own # None

\* C9: verify issues exactly one GET to the single-check endpoint with the
\* email, the flags as 0 or 1 and max_execution_time (30 when not given);
\* it returns the parsed payload on "success" and otherwise raises what
\* _check_response raises.
C9_VerifyOneRequest ==
    call.op = "verify" =>
        /\ Len(call.requests) = 1
        /\ call.requests[1].method = "GET"
        /\ call.requests[1].url = <<"single", "check">>
        /\ call.requests[1].kwargs["params"] =
              [email |-> call.email,
               address_info |->
                   IF "address_info" \in DOMAIN call.kw
                      /\ call.kw["address_info"] THEN 1 ELSE 0,
               credits_info |->
                   IF "credits_info" \in DOMAIN call.kw
                      /\ call.kw["credits_info"] THEN 1 ELSE 0,
               max_execution_time |->
                   IF "max_execution_time" \in DOMAIN call.kw
                   THEN call.kw["max_execution_time"] ELSE 30]
        /\ IF /\ call.resp.ok
              /\ call.resp.parses
              /\ Get(call.resp.data, "status") = Str("success")
           THEN call.exc = "none" /\ call.ret = call.resp.data
           ELSE /\ call.exc # "none"
                /\ call.exc = _check_response(call.resp, call.selfAuth).exc
                /\ call.args = _check_response(call.resp, call.selfAuth).args

C9_Witness ==
    /\ call.op = "verify"
    /\ call.kw = [address_info |-> TRUE, credits_info |-> FALSE]
    /\ call.requests[1].kwargs["params"] =
          [email |-> Str("test@example.com"), address_info |-> 1,
           credits_info |-> 0, max_execution_time |-> 30]
    /\ call.exc = "none"
    /\ call.ret = call.resp.data

\* C10: while an entered scope has not exited the client holds an open
\* session, and no __exit__ raises.
C10_OpenSessionWhileInScope ==
    /\ depth > 0 => (session # None /\ session.id \notin closed)
    /\ call.op = "__exit__" => call.exc = "none"

====
